---- MODULE Spec2Model ----
(***************************************************************************)
(* ScrapLang evaluation core: the runtime value model (ScrapInteger,       *)
(* ScrapObject, ScrapNative), the lexical Scope, and the call protocol of  *)
(* the tree-walking Interpreter.                                           *)
(*                                                                         *)
(* Three specifications share the variables:                               *)
(*   SpecInt  - increment/decrement on ScrapInteger receivers              *)
(*   SpecObj  - get/set/has on ScrapObject instances with prototypes       *)
(*   Spec     - the interpreter executing the body of `main`               *)
(***************************************************************************)
EXTENDS Integers, Sequences, FiniteSets, TLC

VARIABLES
    ints,      \* ScrapInteger receivers: reference -> stored scalar (this.value)
    lastInt,   \* outcome of the last increment()/decrement() call
    objs,      \* ScrapObject heap: reference -> [prototype, entries]
    lastObj,   \* outcome of the last get()/set()/has() call
    scopes,    \* Scope heap: scope id -> [parent, owner, entries]
    status,    \* "running" | "done" | "aborted" (an error unwound to the driver)
    ndecl,     \* declaration instructions of main executed so far
    last       \* outcome of the last instruction of main

vars == <<ints, lastInt, objs, lastObj, scopes, status, ndecl, last>>

-----------------------------------------------------------------------------
(* Runtime values.  One record shape for every ScrapValue subclass:        *)
(*   t     - the class: "int" ScrapInteger, "val" plain ScrapValue,        *)
(*           "arr" ScrapArray, "undef" ScrapUndefined, "fn" a function     *)
(*   v     - the scalar payload (this.value) of a primitive                *)
(*   items - the property descriptors of an array, in order                *)
(*   ref   - the name of the function a "fn" value is                      *)

ScrapInteger(n) == [t |-> "int", v |-> n, items |-> <<>>, ref |-> ""]

ScrapValue(n) == [t |-> "val", v |-> n, items |-> <<>>, ref |-> ""]

ScrapUndefined == [t |-> "undef", v |-> 0, items |-> <<>>, ref |-> ""]

ScrapArray(descs) == [t |-> "arr", v |-> 0, items |-> descs, ref |-> ""]

FnValue(name) == [t |-> "fn", v |-> 0, items |-> <<>>, ref |-> name]

\* ScrapObjectProperty: { metaproperties: { isStatic, visibility, writeable }, value }
Descriptor(val, writeable) ==
    [writeable |-> writeable, isStatic |-> TRUE, visibility |-> "public", value |-> val]

-----------------------------------------------------------------------------
(* ScrapInteger.increment / decrement                                      *)

MaxScalar == 3

IntRefs == {"i1", "i2"}

NoIntOp == [op |-> "none", recv |-> "", before |-> 0, ret |-> 0]

\* `new ScrapInteger((this.value as number)++)`: the postfix operator yields the
\* OLD scalar to the constructor and stores old+1 in the receiver.
PostIncrement(old) == [yield |-> old, stored |-> old + 1]

\* `new ScrapInteger((this.value as number)--)`
PostDecrement(old) == [yield |-> old, stored |-> old - 1]

increment(r) ==
    /\ ints[r] < MaxScalar
    /\ LET step == PostIncrement(ints[r]) IN
         /\ ints' = [ints EXCEPT ![r] = step.stored]
         /\ lastInt' = [op |-> "increment", recv |-> r, before |-> ints[r],
                        ret |-> step.yield]
    /\ UNCHANGED <<objs, lastObj, scopes, status, ndecl, last>>

decrement(r) ==
    /\ ints[r] > -MaxScalar
    /\ LET step == PostDecrement(ints[r]) IN
         /\ ints' = [ints EXCEPT ![r] = step.stored]
         /\ lastInt' = [op |-> "decrement", recv |-> r, before |-> ints[r],
                        ret |-> step.yield]
    /\ UNCHANGED <<objs, lastObj, scopes, status, ndecl, last>>

-----------------------------------------------------------------------------
(* ScrapObject: prototype pointer and own property table                   *)

ObjRefs == {"o1", "o2", "o3"}

Null == "null"

Keys == {"k1", "k2"}

PropValues == {1, 2}

EmptyTable == [n \in {} |-> 0]

\* new ScrapObject(prototype, entries): o1 -> o2 -> o3 -> null
Prototype(o) ==
    CASE o = "o1" -> "o2"
      [] o = "o2" -> "o3"
      [] OTHER    -> Null

NoObjOp == [op |-> "none", recv |-> "", before |-> [o \in ObjRefs |-> EmptyTable], ret |-> ScrapUndefined,
            key |-> "", desc |-> Descriptor(ScrapUndefined, FALSE), found |-> FALSE]

\* Map.prototype.set on a table: insert or overwrite
MapSet(tbl, k, e) == [n \in (DOMAIN tbl) \cup {k} |-> IF n = k THEN e ELSE tbl[n]]

\* ScrapObject.get(name)
ObjGet(heap, o, name) ==
    IF name \in DOMAIN heap[o].entries
        THEN heap[o].entries[name].value
        ELSE ScrapUndefined

ObjSet_IntoPrototype(heap, o, key, d) ==
    LET target == IF heap[o].prototype = Null THEN o ELSE heap[o].prototype IN
    [heap EXCEPT ![target].entries = MapSet(heap[target].entries, key, d)]

\* ScrapObject.set(key, value)
ObjSet(heap, o, key, d) ==
    [heap EXCEPT ![o].entries = MapSet(heap[o].entries, key, d)]

\* ScrapObject.has(name)
ObjHas(heap, o, name) == name \in DOMAIN heap[o].entries

get(o, k) ==
    /\ lastObj' = [NoObjOp EXCEPT !.op = "get", !.recv = o, !.key = k,
                                  !.ret = ObjGet(objs, o, k),
                                  !.before = [x \in ObjRefs |-> objs[x].entries]]
    /\ UNCHANGED <<ints, lastInt, objs, scopes, status, ndecl, last>>

set(o, k, d) ==
    /\ objs' = ObjSet(objs, o, k, d)
    /\ lastObj' = [NoObjOp EXCEPT !.op = "set", !.recv = o, !.key = k, !.desc = d,
                                  !.before = [x \in ObjRefs |-> objs[x].entries]]
    /\ UNCHANGED <<ints, lastInt, scopes, status, ndecl, last>>

has(o, k) ==
    /\ lastObj' = [NoObjOp EXCEPT !.op = "has", !.recv = o, !.key = k,
                                  !.found = ObjHas(objs, o, k),
                                  !.before = [x \in ObjRefs |-> objs[x].entries]]
    /\ UNCHANGED <<ints, lastInt, objs, scopes, status, ndecl, last>>

-----------------------------------------------------------------------------
(* Syntax-tree nodes handed over by the parser                             *)

NumericNode(n) == [n |-> n, k |-> "num"]

IdentifierNode(sym) == [k |-> "id", sym |-> sym]

UndefinedNode == [k |-> "undef"]

BinaryExprNode(l, r) == [op |-> "+", r |-> r, k |-> "bin", l |-> l]

CallNode(callee, args) == [k |-> "call", callee |-> callee, args |-> args]

VariableNode(isConst, name, value) ==
    [name |-> name, value |-> value, k |-> "var", isConst |-> isConst]

\* IScrapParam
Param(pName, isRest) == [pName |-> pName, isRest |-> isRest]

-----------------------------------------------------------------------------
(* Entities                                                                *)

\* new ScrapVariable(isConst, name, assignedValue, isExported)
ScrapVariable(isConst, name, assignedValue, isExported) ==
    [name |-> name, isConst |-> isConst, assignedValue |-> assignedValue,
     isExported |-> isExported, kind |-> "var"]

\* a DefinedFunction or ScrapNative registered under its name
FunctionEntity(kind, name) ==
    [name |-> name, isConst |-> TRUE, assignedValue |-> FnValue(name),
     isExported |-> FALSE, kind |-> kind]

-----------------------------------------------------------------------------
(* The program under execution: its top-level declarations                 *)

\* fn add(a, b) = a + b
\* fn seven(a, b) = 7
\* fn f(a, ...rest) = undefined
\* fn loc(x) { var t = 1 } = t
\* fn glob() = g
\* fn wrap(x) { var t = 1; seven(x, t) } = g
DefinedNames == {"add", "seven", "f", "loc", "glob", "wrap"}

\* new DefinedFunction(name, isExported, scope, params, body, returnValue)
DefinedFunction(name) ==
    CASE name = "add" ->
           [params |-> <<Param("a", FALSE), Param("b", FALSE)>>,
            body |-> <<>>,
            returnValue |-> BinaryExprNode(IdentifierNode("a"), IdentifierNode("b"))]
      [] name = "seven" ->
           [params |-> <<Param("a", FALSE), Param("b", FALSE)>>,
            body |-> <<>>,
            returnValue |-> NumericNode(7)]
      [] name = "f" ->
           [params |-> <<Param("a", FALSE), Param("rest", TRUE)>>,
            body |-> <<>>,
            returnValue |-> UndefinedNode]
      [] name = "loc" ->
           [params |-> <<Param("x", FALSE)>>,
            body |-> <<VariableNode(FALSE, "t", NumericNode(1))>>,
            returnValue |-> IdentifierNode("t")]
      [] name = "glob" ->
           [params |-> <<>>,
            body |-> <<>>,
            returnValue |-> IdentifierNode("g")]
      [] name = "wrap" ->
           [params |-> <<Param("x", FALSE)>>,
            body |-> <<VariableNode(FALSE, "t", NumericNode(1)),
                       CallNode("seven", <<IdentifierNode("x"), IdentifierNode("t")>>)>>,
            returnValue |-> IdentifierNode("g")]

NativeNames == {"nat0", "nat1", "natv"}

\* ScrapNative.argsCount: number | true; `true` is the variable arity
ArgsCount(variadic, n) == [n |-> n, variadic |-> variadic]

\* the native functions of the standard library: nat0() and nat1(x) of fixed
\* arity, natv(...) of variable arity
ScrapNative(name) ==
    CASE name = "nat0" -> [argsCount |-> ArgsCount(FALSE, 0)]
      [] name = "nat1" -> [argsCount |-> ArgsCount(FALSE, 1)]
      [] name = "natv" -> [argsCount |-> ArgsCount(TRUE, 0)]

GlobalScope == "global"

MainScope == "main"

-----------------------------------------------------------------------------
(* Scope: a table of entities with a parent                                *)

\* Scope.getEntries.has(name)
HasEntry(sc, id, name) == name \in DOMAIN sc[id].entries

\* Scope.addEntry(name, entity): FALSE when the name is in this scope's own table
addEntry(sc, id, name, entity) ==
    IF HasEntry(sc, id, name)
        THEN [scopes |-> sc, ok |-> FALSE]
        ELSE [scopes |-> [sc EXCEPT ![id].entries = MapSet(sc[id].entries, name, entity)],
              ok |-> TRUE]

\* the absence getReference returns for a name no scope of the chain has
Absent(name) == [name |-> name, isConst |-> FALSE, assignedValue |-> ScrapUndefined,
                 isExported |-> FALSE, kind |-> "absent"]

RECURSIVE getReference(_, _, _)
\* Scope.getReference(name): this scope, then the parents
getReference(sc, id, name) ==
    IF id = Null THEN Absent(name)
    ELSE IF HasEntry(sc, id, name) THEN sc[id].entries[name]
    ELSE getReference(sc, sc[id].parent, name)

\* Scope.clean(): empties this scope's own table
clean(sc, id) == [sc EXCEPT ![id].entries = EmptyTable]

-----------------------------------------------------------------------------
(* Errors.  Both kinds unwind to the program driver.                       *)

NoError == [name |-> "", kind |-> "none", what |-> "", expects |-> 0, received |-> 0]

\* scrapRuntimeError(message): what/name/expects/received are what the message reports
RuntimeError(what, name, expects, received) ==
    [name |-> name, kind |-> "runtime", what |-> what,
     expects |-> expects, received |-> received]

\* scrapReferenceError()
UndefinedReferenceError(name) ==
    [name |-> name, kind |-> "reference", what |-> "undefined",
     expects |-> 0, received |-> 0]

-----------------------------------------------------------------------------
(* Evaluation state threaded through the interpreter:                      *)
(*   scopes - the Scope heap                                               *)
(*   err    - the error being thrown, NoError when none                    *)
(*   val    - the ScrapValue the last evaluation returned                  *)
(*   log    - history of the call protocol's steps, each with the callee   *)
(*            scope's own table and the whole Scope heap at that moment    *)

Event(ev, fn, name, ok, sc) ==
    [name |-> name, tbl |-> sc[fn].entries, heap |-> sc, ok |-> ok, ev |-> ev,
     fn |-> fn]

Throw(st, e) == [st EXCEPT !.err = e]

Return(st, v) == [st EXCEPT !.val = v]

Logged(st, ev, fn, name, ok) ==
    [st EXCEPT !.log = Append(@, Event(ev, fn, name, ok, st.scopes))]

Failed(st) == st.err.kind # "none"

-----------------------------------------------------------------------------
(* Interpreter                                                             *)

RECURSIVE computeValue(_, _, _)
RECURSIVE mapComputeValue(_, _, _, _, _)
RECURSIVE bindParams(_, _, _, _, _, _)
RECURSIVE runBody(_, _, _, _)

Min(a, b) == IF a < b THEN a ELSE b

\* nodes.map(node => this.computeValue(node, scope)): left to right, until one throws
mapComputeValue(nodes, i, scope, st, acc) ==
    IF i > Len(nodes) \/ Failed(st)
        THEN [st |-> st, vals |-> acc]
        ELSE LET s1 == computeValue(nodes[i], scope, st) IN
             mapComputeValue(nodes, i + 1, scope, s1,
                             IF Failed(s1) THEN acc ELSE Append(acc, s1.val))

\* callee.getScope.addEntry(pName, new ScrapVariable(isConst, pName, value, false));
\* the result of addEntry is not looked at
bindValue(fn, pName, isConst, value, st) ==
    LET added == addEntry(st.scopes, fn, pName,
                          ScrapVariable(isConst, pName, value, FALSE))
    IN  Logged([st EXCEPT !.scopes = added.scopes], "bind", fn, pName, added.ok)

\* one parameter: its argument's value, evaluated in the caller's scope, is bound
bindArg(fn, pName, st) ==
    IF Failed(st) THEN st ELSE bindValue(fn, pName, FALSE, st.val, st)

\* for (const i in params)
\*   callee.getScope.addEntry(pName, new ScrapVariable(false, pName, computeValue(args[i], calleerScope), false))
bindParams(fn, params, args, i, calleerScope, st) ==
    IF i > Len(params) \/ Failed(st)
        THEN st
        ELSE bindParams(fn, params, args, i + 1, calleerScope,
                        bindArg(fn, params[i].pName,
                                computeValue(args[i], calleerScope, st)))

RestSlice_OffByOne(args, restIdx) == SubSeq(args, restIdx + 2, Len(args))

\* args.slice(restIdx, args.length), restIdx counted from 0
RestSlice(args, restIdx) == SubSeq(args, restIdx + 1, Len(args))

\* the rest parameter: a constant holding a ScrapArray of the remaining values
bindRest(fn, restName, m) ==
    IF Failed(m.st) THEN m.st
    ELSE bindValue(fn, restName, TRUE,
                   ScrapArray([j \in 1 .. Len(m.vals) |-> Descriptor(m.vals[j], TRUE)]),
                   m.st)

\* Interpreter.computeRestParameters
computeRestParameters(fn, calleerScope, params, args, st) ==
    LET restIdx == Len(params) - 1
        slicedParams == SubSeq(params, 1, restIdx)
        slicedArgs == SubSeq(args, 1, Min(restIdx, Len(args)))
        restName == params[Len(params)].pName
    IN  IF Len(slicedArgs) # Len(slicedParams)
            THEN Throw(st, RuntimeError("arity", fn, Len(slicedParams), Len(slicedArgs)))
            ELSE bindRest(fn, restName,
                     mapComputeValue(RestSlice(args, restIdx), 1, calleerScope,
                         bindParams(fn, slicedParams, slicedArgs, 1, calleerScope, st),
                         <<>>))

\* vars.computeVar: a ScrapVariable holding the value of the initialiser
computeVar(node, scope, st) ==
    LET s1 == computeValue(node.value, scope, st) IN
    [entity |-> ScrapVariable(node.isConst, node.name, s1.val, FALSE),
     st |-> s1]

\* Interpreter.computeEntity; function and module declarations are not among
\* the instructions executed here
computeEntity(node, scope, st) ==
    IF node.k = "var"
        THEN computeVar(node, scope, st)
        ELSE [entity |-> Absent(node.k),
              st |-> Throw(st, RuntimeError("unsupported", node.k, 0, 0))]

addToScope_Unchecked(entity, scope, st) ==
    [st EXCEPT !.scopes = addEntry(st.scopes, scope, entity.name, entity).scopes]

\* addToScope(entity, scope)
addToScope(entity, scope, st) ==
    LET added == addEntry(st.scopes, scope, entity.name, entity) IN
    IF ~added.ok
        THEN Throw(st, RuntimeError("duplicate", entity.name, 0, 0))
        ELSE [st EXCEPT !.scopes = added.scopes]

ValueKinds == {"num", "id", "undef", "bin", "call"}

\* Interpreter.computeInstruction
computeInstruction(node, fnScope, st) ==
    IF node.k \in ValueKinds
        THEN computeValue(node, fnScope, st)
        ELSE LET c == computeEntity(node, fnScope, st) IN
             IF Failed(c.st) THEN c.st ELSE addToScope(c.entity, fnScope, c.st)

\* for (const instruction of callee.getBody) this.computeInstruction(instruction, scope)
runBody(body, i, scope, st) ==
    IF i > Len(body) \/ Failed(st)
        THEN st
        ELSE runBody(body, i + 1, scope, computeInstruction(body[i], scope, st))

ArityMismatch_TooFewOnly(params, args) == Len(args) < Len(params)

\* if (args.length !== params.length)
ArityMismatch(params, args) == Len(args) # Len(params)

ReturnsLocal_Never(sc, fn, ret) == FALSE

\* callee.getReturnValue.isIdentifier() && callee.getScope.getEntries.has(callee.getReturnValue.getSymbol)
ReturnsLocal(sc, fn, ret) == ret.k = "id" /\ HasEntry(sc, fn, ret.sym)

Release_Nothing(sc, fn) == sc

Release_WithParent(sc, fn) == clean(clean(sc, fn), sc[fn].parent)

\* callee.getScope.clean()
Release(sc, fn) == clean(sc, fn)

\* Interpreter.execDefinedFunc, the return statement: ScrapUndefined for an
\* undefined return expression, else the expression's value in the callee's scope
returnValue(fn, ret, scope, st) ==
    LET s1 == IF ret.k = "undef"
                  THEN Return(st, ScrapUndefined)
                  ELSE computeValue(ret, scope, st)
    IN  IF Failed(s1) THEN s1 ELSE Logged(s1, "return", fn, "", TRUE)

\* Interpreter.execDefinedFunc, from the return-value check on: the check, then
\* callee.getScope.clean(), then the value of the return expression
checkAndReturn(fn, scope, st) ==
    LET ret == DefinedFunction(fn).returnValue
        rejected == ReturnsLocal(st.scopes, fn, ret)
        checked == Logged(st, "check", fn, "", ~rejected)
    IN  IF Failed(st) THEN st
        ELSE IF rejected THEN Throw(checked, RuntimeError("local-return", fn, 0, 0))
        ELSE returnValue(fn, ret, scope,
                 Logged([checked EXCEPT !.scopes = Release(@, fn)], "clean", fn, "", TRUE))

\* Interpreter.execDefinedFunc, once the parameters are bound: the body's
\* instructions in order, then the check and the return
execBody(fn, scope, st) ==
    IF Failed(st) THEN st
    ELSE checkAndReturn(fn, scope,
             runBody(DefinedFunction(fn).body, 1, scope, Logged(st, "body", fn, "", TRUE)))

\* Interpreter.execDefinedFunc; a DefinedFunction's scope has the function's name as id
execDefinedFunc(call, fn, scope, calleerScope, st) ==
    LET params == DefinedFunction(fn).params
        args == call.args
        s0 == Logged(st, "enter", fn, "", TRUE)
    IN  execBody(fn, scope,
            IF Len(params) > 0 /\ params[Len(params)].isRest
                THEN computeRestParameters(fn, calleerScope, params, args, s0)
                ELSE IF ArityMismatch(params, args)
                    THEN Throw(s0, RuntimeError("arity", fn, Len(params), Len(args)))
                    ELSE bindParams(fn, params, args, 1, calleerScope, s0))

\* JavaScript truthiness and ToNumber of `argsCount: number | true`
Truthy(argsCount) == argsCount.variadic \/ argsCount.n # 0

ToNumber(argsCount) == IF argsCount.variadic THEN 1 ELSE argsCount.n

\* ScrapNative.getAction: the host callable; this one hands back its arguments
getAction(name, vals) ==
    ScrapArray([j \in 1 .. Len(vals) |-> Descriptor(vals[j], FALSE)])

\* Interpreter.execCallee
execCallee(call, callee, scope, st) ==
    IF callee \in NativeNames
        THEN LET argsCount == ScrapNative(callee).argsCount IN
             IF Truthy(argsCount) /\ Len(call.args) > ToNumber(argsCount)
                 THEN Throw(st, RuntimeError("arity", callee, ToNumber(argsCount),
                                             Len(call.args)))
                 ELSE LET m == mapComputeValue(call.args, 1, scope, st, <<>>) IN
                      IF Failed(m.st) THEN m.st
                      ELSE Return(m.st, getAction(callee, m.vals))
        ELSE execDefinedFunc(call, callee, callee, scope, st)

\* Interpreter.findCallee
findCallee(call, whereIsCallee, st) ==
    LET callee == getReference(st.scopes, whereIsCallee, call.callee) IN
    IF callee.kind = "absent"
        THEN [fn |-> "", err |-> UndefinedReferenceError(call.callee)]
    ELSE IF callee.kind = "var"
        THEN IF callee.assignedValue.t # "fn"
                 THEN [fn |-> "", err |-> RuntimeError("not-callable", call.callee, 0, 0)]
                 ELSE [fn |-> callee.assignedValue.ref, err |-> NoError]
    ELSE [fn |-> callee.name, err |-> NoError]

\* Interpreter.computeCall
computeCall(call, scope, st) ==
    LET found == findCallee(call, scope, st) IN
    IF found.err.kind # "none"
        THEN Throw(st, found.err)
        ELSE execCallee(call, found.fn, scope, st)

\* Interpreter.computeIdentifier
computeIdentifier(node, scope, st) ==
    LET referred == getReference(st.scopes, scope, node.sym)
        storedValue == IF referred.kind = "var" THEN referred.assignedValue
                       ELSE FnValue(referred.name)
    IN  IF referred.kind = "absent"
            THEN Throw(st, UndefinedReferenceError(node.sym))
        ELSE IF storedValue.t = "int"
            THEN Return(st, ScrapValue(storedValue.v))
        ELSE Return(st, storedValue)

Numeric(val) == val.t \in {"int", "val"}

\* the operator applied to the operands' values
applyOperator(node, lhs, st) ==
    IF Failed(st) THEN st
    ELSE IF Numeric(lhs) /\ Numeric(st.val)
        THEN Return(st, ScrapInteger(lhs.v + st.val.v))
    ELSE Throw(st, RuntimeError("operand", node.op, 0, 0))

\* the right operand, evaluated after the left one
computeRhs(node, scope, st) ==
    IF Failed(st) THEN st
    ELSE applyOperator(node, st.val, computeValue(node.r, scope, st))

\* computeBinaryExpr: both operands through computeValue, then the operator
computeBinaryExpr(node, scope, st) ==
    computeRhs(node, scope, computeValue(node.l, scope, st))

\* Interpreter.computeValue
computeValue(node, scope, st) ==
    IF Failed(st) THEN st
    ELSE CASE node.k = "bin"  -> computeBinaryExpr(node, scope, st)
           [] node.k = "call" -> computeCall(node, scope, st)
           [] node.k = "id"   -> computeIdentifier(node, scope, st)
           [] node.k = "num"  -> Return(st, ScrapInteger(node.n))
           [] OTHER           -> Throw(st, RuntimeError("unsupported", node.k, 0, 0))

-----------------------------------------------------------------------------
(* The program driver: Interpreter.run executes main's body, instruction   *)
(* by instruction, in main's scope.  The body is any sequence of at most   *)
(* MaxDecls variable declarations followed by one call statement.          *)

MaxDecls == 2

MaxArgs == 3

DeclNames == {"g", "x"}

DeclValues == {1, 2}

Callees == DefinedNames \cup NativeNames \cup {"g", "nope"}

\* the arguments of a call nested in an argument list: as many as the callee
\* has parameters, the literals 11, 12, ...
InnerArgs(fn) ==
    LET n == IF fn \in DefinedNames THEN Len(DefinedFunction(fn).params) ELSE 1
    IN  [i \in 1 .. n |-> NumericNode(10 + i)]

\* argument lists: the literals 1, 2, ... n, optionally with the argument at one
\* position replaced by a call to the same function or by the identifier g
ArgLists(fn) ==
    IF fn \in DefinedNames \cup NativeNames
        THEN { [i \in 1 .. n |->
                  IF i = p
                      THEN IF nested THEN CallNode(fn, InnerArgs(fn))
                                     ELSE IdentifierNode("g")
                      ELSE NumericNode(i)] :
               n \in 0 .. MaxArgs, p \in 0 .. MaxArgs, nested \in BOOLEAN }
        ELSE { <<>> }

NoInstruction ==
    [val |-> ScrapUndefined, kind |-> "none", err |-> NoError,
     log |-> <<>>, node |-> UndefinedNode, pre |-> EmptyTable]

Start(sc) == [scopes |-> sc, val |-> ScrapUndefined, err |-> NoError, log |-> <<>>]

Outcome(kind, node, st) ==
    [val |-> st.val, kind |-> kind, err |-> st.err,
     log |-> st.log, node |-> node, pre |-> scopes]

\* the instruction's effect on the program: its scopes, and whether it threw
Executed(kind, node, st, next) ==
    /\ scopes' = st.scopes
    /\ status' = IF Failed(st) THEN "aborted" ELSE next
    /\ last' = Outcome(kind, node, st)

\* a declaration statement of main: computeInstruction(node, mainFn.getScope)
Declare(name, isConst, n) ==
    /\ status = "running"
    /\ ndecl < MaxDecls
    /\ Executed("decl", VariableNode(isConst, name, NumericNode(n)),
                computeInstruction(VariableNode(isConst, name, NumericNode(n)),
                                   MainScope, Start(scopes)),
                "running")
    /\ ndecl' = ndecl + 1
    /\ UNCHANGED <<ints, lastInt, objs, lastObj>>

\* a call statement of main: computeInstruction(node, mainFn.getScope)
Call(fn, args) ==
    /\ status = "running"
    /\ Executed("call", CallNode(fn, args),
                computeInstruction(CallNode(fn, args), MainScope, Start(scopes)),
                "done")
    /\ UNCHANGED <<ints, lastInt, objs, lastObj, ndecl>>

\* new Scope(parent, owner)
Scope(parent, owner, entries) == [entries |-> entries, parent |-> parent, owner |-> owner]

\* the scopes once Interpreter.run has registered every top-level declaration:
\* the functions and `const g = 100` in the global scope, an empty scope per function
InitScopes ==
    [id \in {GlobalScope, MainScope} \cup DefinedNames |->
        IF id = GlobalScope
            THEN Scope(Null, id,
                    [n \in DefinedNames \cup NativeNames \cup {"g", "main"} |->
                        IF n = "g" THEN ScrapVariable(TRUE, "g", ScrapInteger(100), FALSE)
                        ELSE IF n \in NativeNames THEN FunctionEntity("native", n)
                        ELSE FunctionEntity("fn", n)])
            ELSE Scope(GlobalScope, id, EmptyTable)]

-----------------------------------------------------------------------------
InitValues ==
    /\ ints = [r \in IntRefs |-> 0]
    /\ lastInt = NoIntOp
    /\ objs = [o \in ObjRefs |-> [entries |-> EmptyTable, prototype |-> Prototype(o)]]
    /\ lastObj = NoObjOp

Init ==
    /\ InitValues
    /\ scopes = InitScopes
    /\ status = "running"
    /\ ndecl = 0
    /\ last = NoInstruction

NextInt ==
    \/ \E r \in IntRefs : increment(r)
    \/ \E r \in IntRefs : decrement(r)

NextObj ==
    \/ \E o \in ObjRefs, k \in Keys, n \in PropValues :
          set(o, k, Descriptor(ScrapInteger(n), TRUE))
    \/ \E o \in ObjRefs, k \in Keys : get(o, k)
    \/ \E o \in ObjRefs, k \in Keys : has(o, k)

Next ==
    \/ \E name \in DeclNames, isConst \in BOOLEAN, n \in DeclValues : Declare(name, isConst, n)
    \/ \E fn \in Callees : \E args \in ArgLists(fn) : Call(fn, args)

Spec == Init /\ [][Next]_vars

SpecInt == Init /\ [][NextInt]_vars

SpecObj == Init /\ [][NextObj]_vars

-----------------------------------------------------------------------------
(* Vocabulary of the properties                                            *)

TopCall == last.kind = "call"

TopArgs == last.node.args

TopCallee == last.node.callee

\* no argument of the call statement is itself a call
PlainArgs == \A i \in 1 .. Len(TopArgs) : TopArgs[i].k # "call"

LiteralArgs == \A i \in 1 .. Len(TopArgs) : TopArgs[i].k = "num"

IsRestFn(fn) ==
    LET params == DefinedFunction(fn).params IN
    Len(params) > 0 /\ params[Len(params)].isRest

\* the value an argument that is a literal or the identifier g has in the
\* scope of the caller, main
ArgValue(node) ==
    IF node.k = "num"
        THEN ScrapInteger(node.n)
        ELSE ScrapValue(getReference(last.pre, MainScope, node.sym).assignedValue.v)

\* the events of the log that are `ev` steps of function fn, in order
EventsOf(ev, fn) == SelectSeq(last.log, LAMBDA e : e.ev = ev /\ e.fn = fn)

LastEvent == last.log[Len(last.log)]

-----------------------------------------------------------------------------
\* C1: add(a, b) = a + b called with two literal arguments x and y returns
\* Integer x+y; the call does not fail with an unresolved reference.
C1_AddReturnsSum ==
    (TopCall /\ TopCallee = "add" /\ Len(TopArgs) = 2 /\ LiteralArgs) =>
        /\ last.err = NoError
        /\ last.val = ScrapInteger(TopArgs[1].n + TopArgs[2].n)

\* C2: increment() returns a new Integer holding v+1, decrement() one holding
\* v-1, and the receiver's stored scalar is still v after the call.
C2_IncDecPure ==
    /\ lastInt.op = "increment" =>
          /\ lastInt.ret = lastInt.before + 1
          /\ ints[lastInt.recv] = lastInt.before
    /\ lastInt.op = "decrement" =>
          /\ lastInt.ret = lastInt.before - 1
          /\ ints[lastInt.recv] = lastInt.before

\* C3: a call of a function without rest parameter with M arguments for N # M
\* parameters fails with an arity error reporting N and M, before any parameter
\* is bound into the function's scope and before any body instruction runs:
\* the last step of the call protocol is the entry of the failing call, and no
\* scope has changed.
C3_ArityErrorBeforeBinding ==
    /\ (TopCall /\ TopCallee \in DefinedNames /\ ~IsRestFn(TopCallee)
           /\ Len(TopArgs) # Len(DefinedFunction(TopCallee).params)) =>
          /\ last.err = RuntimeError("arity", TopCallee,
                                     Len(DefinedFunction(TopCallee).params), Len(TopArgs))
          /\ status = "aborted"
          /\ last.log = <<Event("enter", TopCallee, "", TRUE, last.pre)>>
          /\ scopes = last.pre
    /\ (TopCall /\ last.err.what = "arity" /\ last.err.name \in DefinedNames) =>
          /\ LastEvent.ev = "enter"
          /\ LastEvent.fn = last.err.name

C3_Witness ==
    /\ TopCall /\ TopCallee = "add" /\ Len(TopArgs) = 3
    /\ last.err = RuntimeError("arity", "add", 2, 3)
    /\ scopes["add"].entries = EmptyTable

C5_LocalReturnRejected ==
    TopCall =>
        /\ \A i \in 1 .. Len(last.log) :
              LET e == last.log[i]
                  ret == DefinedFunction(e.fn).returnValue
              IN  e.ev = "check" =>
                    /\ e.ok = ~(ret.k = "id" /\ ret.sym \in DOMAIN e.tbl)
                    /\ ~e.ok => /\ i = Len(last.log)
                                /\ last.err = RuntimeError("local-return", e.fn, 0, 0)
                                /\ status = "aborted"
                                /\ EventsOf("return", e.fn) = <<>>
        /\ last.err.what = "local-return" =>
              LastEvent.ev = "check" /\ ~LastEvent.ok

C5_Witness ==
    /\ TopCall /\ TopCallee = "loc" /\ Len(TopArgs) = 1 /\ LiteralArgs
    /\ last.err = RuntimeError("local-return", "loc", 0, 0)
    /\ "t" \in DOMAIN LastEvent.tbl

-----------------------------------------------------------------------------
\* the value bound to name in the nearest object of o's prototype chain that
\* has it, the Undefined sentinel when none has
RECURSIVE ChainValue(_, _, _)
ChainValue(heap, o, name) ==
    IF o = Null THEN ScrapUndefined
    ELSE IF name \in DOMAIN heap[o].entries THEN heap[o].entries[name].value
    ELSE ChainValue(heap, heap[o].prototype, name)

C7_GetWalksPrototypes ==
    (lastObj.op = "get" /\ lastObj.key \notin DOMAIN objs[lastObj.recv].entries) =>
        lastObj.ret = ChainValue(objs, lastObj.recv, lastObj.key)

-----------------------------------------------------------------------------
\* C8: a declaration registered through addToScope fails with a runtime error
\* when its name is already in the same scope's own table, and then no scope
\* has changed; otherwise it succeeds, also when a parent scope binds the
\* name, adds the binding to that scope alone and leaves the parent as it was.
C8_DuplicateDeclaration ==
    last.kind = "decl" =>
        LET name == last.node.name IN
        IF name \in DOMAIN last.pre[MainScope].entries
            THEN /\ last.err = RuntimeError("duplicate", name, 0, 0)
                 /\ status = "aborted"
                 /\ scopes = last.pre
            ELSE /\ last.err = NoError
                 /\ scopes[MainScope].entries =
                       MapSet(last.pre[MainScope].entries, name,
                              ScrapVariable(last.node.isConst, name,
                                            ScrapInteger(last.node.value.n), FALSE))
                 /\ \A id \in DOMAIN scopes \ {MainScope} : scopes[id] = last.pre[id]

C8_Witness ==
    /\ last.kind = "decl" /\ last.node.name = "g"
    /\ last.err = RuntimeError("duplicate", "g", 0, 0)
    /\ scopes[MainScope].entries["g"].assignedValue # ScrapInteger(last.node.value.n)
    /\ scopes[GlobalScope].entries["g"].assignedValue = ScrapInteger(100)

\* C9: a call of a native function fails with an arity error exactly when the
\* function declares a fixed arity and more arguments are supplied; in every
\* other case the host callable gets the arguments evaluated in the caller's
\* scope, in order, and its result is returned unchanged.
C9_NativeArity ==
    (TopCall /\ TopCallee \in NativeNames /\ PlainArgs) =>
        LET argsCount == ScrapNative(TopCallee).argsCount IN
        IF ~argsCount.variadic /\ Len(TopArgs) > argsCount.n
            THEN last.err = RuntimeError("arity", TopCallee, argsCount.n, Len(TopArgs))
            ELSE /\ last.err = NoError
                 /\ last.val = getAction(TopCallee,
                                         [i \in 1 .. Len(TopArgs) |-> ArgValue(TopArgs[i])])

\* C10: calls of one function share its scope.  Whenever an argument of a call
\* is a call of the same function that returns, the body of the outer call
\* runs without the parameters bound before that argument, and the nested
\* call ran its body with those parameters holding the outer call's values.
C10_NestedCallCorruptsBindings ==
    (TopCall /\ TopCallee \in DefinedNames
        /\ Len(EventsOf("body", TopCallee)) = 2) =>
        LET params == DefinedFunction(TopCallee).params
            positional == IF IsRestFn(TopCallee) THEN Len(params) - 1 ELSE Len(params)
            inner == EventsOf("body", TopCallee)[1]
            outer == EventsOf("body", TopCallee)[2]
        IN  \A i \in 1 .. Len(TopArgs) :
              TopArgs[i].k = "call" =>
                \A j \in 1 .. Min(i - 1, positional) :
                    /\ params[j].pName \notin DOMAIN outer.tbl
                    /\ inner.tbl[params[j].pName].assignedValue = ArgValue(TopArgs[j])

C10_Witness ==
    /\ TopCall /\ TopCallee = "seven" /\ status = "done"
    /\ Len(TopArgs) = 2 /\ TopArgs[2].k = "call"
    /\ Len(EventsOf("body", "seven")) = 2
    /\ DOMAIN EventsOf("body", "seven")[2].tbl = {"b"}
    /\ EventsOf("body", "seven")[1].tbl["a"].assignedValue = ScrapInteger(1)
    /\ last.val = ScrapInteger(7)

-----------------------------------------------------------------------------
====
